---- MODULE Spec2Model ----
(***************************************************************************)
(* Model of the simulation engine of src/App.tsx: the metrics effect       *)
(* (a 1000 ms interval timer computing load samples) and the animator      *)
(* effect (a requestAnimationFrame loop over a pool of particles), driven  *)
(* by the start/stop button and the configuration controls.                *)
(*                                                                         *)
(* Numbers.  JavaScript numbers are modelled as exact fixed-point          *)
(* rationals: Math.random() yields n / RandDen for an integer n in         *)
(* 0 .. RandDen-1, percentages are integers in units of 1/PctScale,        *)
(* coordinates and speeds are integers in units of 1/PxScale pixel, and    *)
(* the server load, a quotient, is kept as a fraction num/den.             *)
(* Math.random is a seeded generator: the seed is chosen in Init and every *)
(* call advances it, in the order the code makes the calls.                *)
(*                                                                         *)
(* Time.  now counts milliseconds and animateCalls counts invocations of   *)
(* animate, both from the moment the observation starts.  Interval timers  *)
(* fire when they are due.                                                 *)
(***************************************************************************)
EXTENDS Integers, Sequences, FiniteSets, TLC

VARIABLES
  serverConfig,       \* useState<ServerConfig>
  security,           \* useState<SecurityMeasures>
  isSimulating,       \* useState(false)
  attackIntensity,    \* useState(50)
  canvasAvailable,    \* canvasRef.current and its 2d context are there
  metrics,            \* useState<MetricPoint[]>: the history
  serverLoad,         \* useState(0), a fraction num/den of a percent
  legitimateTraffic,  \* useState(0), in 1/PctScale percent
  maliciousTraffic,   \* useState(0), in 1/PctScale percent
  intervals,          \* the active setInterval timers, each with its closure
  loops,              \* the animate closures with a pending animation frame
  now,                \* Date.now()
  rng,                \* the state of Math.random
  animateCalls        \* invocations of animate (each one paints the canvas)

vars == <<serverConfig, security, isSimulating, attackIntensity, canvasAvailable,
          metrics, serverLoad, legitimateTraffic, maliciousTraffic, intervals,
          loops, now, rng, animateCalls>>

----------------------------------------------------------------------------
(* Program constants *)

particleCount == 100
CanvasWidth == 400
CanvasHeight == 300
Interval == 1000
HistoryKeep == 30
DefaultCpu == 4
DefaultRam == 16
DefaultBandwidth == 1000
DefaultStorage == 500
DefaultAttackIntensity == 50

(* Bounds of the model *)

RandDen == 16            \* resolution of Math.random: values n / RandDen
MaxTime == 2000          \* the observation ends at this time
MaxLoops == 2            \* animate closures created during the observation
MaxAnimateCalls == 3     \* invocations of animate during the observation

PctScale == 100 * RandDen
PxScale == 10 * RandDen

MeasureKeys == {"fail2ban", "pfsense", "cloudflare", "loadBalancer", "waf"}
ConfigKeys == {"cpu", "ram", "bandwidth", "storage"}

Min(a, b) == IF a < b THEN a ELSE b
Max(a, b) == IF a > b THEN a ELSE b

----------------------------------------------------------------------------
(* Math.random: the value drawn is s / RandDen, the next state NextRng(s) *)

\* the state after k calls
RngAfter(s, k) == (s + 7 * k) % RandDen
NextRng(s) == RngAfter(s, 1)

----------------------------------------------------------------------------
(* Metrics engine *)

\* Mutant: a count that leaves out the last measure of the record
protectionLevelNoWaf(sec) == Cardinality({k \in MeasureKeys \ {"waf"} : sec[k]})

\* Object.values(security).filter(Boolean).length
protectionLevel(sec) == Cardinality({k \in MeasureKeys : sec[k]})

\* getProtectionScore: (measures / 5) * 100, in 1/PctScale
getProtectionScore(sec) == (protectionLevel(sec) * 100 * PctScale) \div 5

\* Mutant: each measure takes 0.2 of the load off
baseLoadFifth(ai, sec) == ai * (100 - 20 * protectionLevel(sec)) * RandDen

\* baseLoad = attackIntensity * (1 - protectionLevel * 0.15), in 1/PctScale
baseLoad(ai, sec) == ai * (100 - 15 * protectionLevel(sec)) * RandDen

\* randomVariation = Math.random() * 20 - 10, in 1/PctScale
randomVariation(r) == 100 * (20 * r - 10 * RandDen)

\* value = Math.max(0, Math.min(100, baseLoad + randomVariation))
sampleValue(ai, sec, r) ==
  Max(0, Min(100 * PctScale, baseLoad(ai, sec) + randomVariation(r)))

\* setMetrics(prev => [...prev.slice(-30), { timestamp, value }])
sliceLast(s, n) == IF Len(s) <= n THEN s ELSE SubSeq(s, Len(s) - n + 1, Len(s))

\* Mutant: setMetrics(prev => [...prev, { timestamp, value }]), no slice
appendMetricKeepAll(prev, point) == Append(prev, point)

appendMetric(prev, point) == Append(sliceLast(prev, HistoryKeep), point)

\* serverCapacity = (cpu * 10 + ram * 2 + bandwidth / 100) / 3, times 300
serverCapacity300(cfg) == cfg.cpu * 1000 + cfg.ram * 200 + cfg.bandwidth

\* Mutant: newServerLoad = (value / serverCapacity) * 100, no Math.min
newServerLoadNoMin(value, cfg) ==
  [num |-> value * 300, den |-> RandDen * serverCapacity300(cfg)]

\* newServerLoad = Math.min(100, (value / serverCapacity) * 100), the fraction
\* num/den of a percent: (value / PctScale) * (300 / serverCapacity300) * 100
newServerLoad(value, cfg) ==
  LET num == value * 300
      den == RandDen * serverCapacity300(cfg)
  IN  IF num > 100 * den
      THEN [num |-> 100, den |-> 1]
      ELSE [num |-> num, den |-> den]

\* totalTraffic - totalTraffic * (protectionLevel * 0.2), in 1/PctScale
newMaliciousTraffic(ai, sec) ==
  LET totalTraffic == ai * 2 * PctScale
      blockedTraffic == (totalTraffic * protectionLevel(sec) * 2) \div 10
  IN  totalTraffic - blockedTraffic

\* 50 + Math.random() * 20, in 1/PctScale
newLegitimateTraffic(r) == 50 * PctScale + 100 * 20 * r

----------------------------------------------------------------------------
(* Traffic particle animator *)

\* Mutant: the heavy slow-down from three measures on (level >= 3)
resetParticleOffByOne(s, sec) ==
  LET r1 == s
      r2 == NextRng(r1)
      r3 == NextRng(r2)
      type == IF 10 * r3 > 7 * RandDen THEN "legitimate" ELSE "attack"
      base == 10 * (2 * RandDen + 3 * r2)
      level == protectionLevel(sec)
  IN  [particle |->
         [x |-> 0,
          y |-> r1 * CanvasHeight * 10,
          type |-> type,
          speed |-> IF type = "legitimate" THEN base
                    ELSE IF level >= 3 THEN (base * 3) \div 10
                    ELSE IF level >= 2 THEN (base * 6) \div 10
                    ELSE base,
          color |-> IF type = "legitimate" THEN "#22c55e"
                    ELSE IF level >= 3 THEN "#ef4444"
                    ELSE IF level >= 2 THEN "#eab308"
                    ELSE "#ef4444"],
       rng |-> NextRng(r3)]

\* resetParticle: three draws (y, speed, type), then colour and slow-down by
\* the protection level of the security record the closure captured.
resetParticle(s, sec) ==
  LET r1 == s
      r2 == NextRng(r1)
      r3 == NextRng(r2)
      type == IF 10 * r3 > 7 * RandDen THEN "legitimate" ELSE "attack"
      base == 10 * (2 * RandDen + 3 * r2)
      level == protectionLevel(sec)
  IN  [particle |->
         [x |-> 0,
          y |-> r1 * CanvasHeight * 10,
          type |-> type,
          speed |-> IF type = "legitimate" THEN base
                    ELSE IF level >= 4 THEN (base * 3) \div 10
                    ELSE IF level >= 2 THEN (base * 6) \div 10
                    ELSE base,
          color |-> IF type = "legitimate" THEN "#22c55e"
                    ELSE IF level >= 4 THEN "#ef4444"
                    ELSE IF level >= 2 THEN "#eab308"
                    ELSE "#ef4444"],
       rng |-> NextRng(r3)]

\* The array with elements f[1], ..., f[n]
Array(f, n) == SubSeq(f, 1, n)

\* for (i < particleCount) { resetParticle(particle); particles.push(particle) }
\* The i-th particle is reset after the 3 * (i - 1) draws of those before it.
createPool(n, s, sec) ==
  [particles |->
     Array([i \in 1 .. n |-> resetParticle(RngAfter(s, 3 * (i - 1)), sec).particle], n),
   rng |-> RngAfter(s, 3 * n)]

\* Mutant: a particle past the right edge is removed from the pool
advanceAllDropLeaving(ps, s, sec) ==
  LET moved == Array([i \in 1 .. Len(ps) |-> [ps[i] EXCEPT !.x = @ + ps[i].speed]],
                     Len(ps))
  IN  [particles |-> SelectSeq(moved, LAMBDA p : p.x <= CanvasWidth * PxScale),
       rng |-> s]

\* particles.forEach: particle.x += particle.speed; past the right edge, reset.
\* A particle that leaves is reset after the draws of those leaving before it.
advanceAll(ps, s, sec) ==
  LET leaving == {i \in 1 .. Len(ps) : ps[i].x + ps[i].speed > CanvasWidth * PxScale}
      before(i) == Cardinality({j \in leaving : j < i})
  IN  [particles |->
         Array([i \in 1 .. Len(ps) |->
                  IF i \in leaving
                  THEN resetParticle(RngAfter(s, 3 * before(i)), sec).particle
                  ELSE [ps[i] EXCEPT !.x = @ + ps[i].speed]], Len(ps)),
       rng |-> RngAfter(s, 3 * Cardinality(leaving))]

\* animate: one invocation on the closure's pool
animate(loop, s) ==
  LET r == advanceAll(loop.particles, s, loop.security)
  IN  [loop |-> [loop EXCEPT !.particles = r.particles], rng |-> r.rng]

\* One display refresh runs every pending animation frame callback, in the
\* order they were requested; each requests its next frame.
RECURSIVE runFrames(_, _, _)
runFrames(ls, n, s) ==
  IF n = 0 THEN [loops |-> <<>>, rng |-> s]
  ELSE LET rest == runFrames(ls, n - 1, s)
           one == animate(ls[n], rest.rng)
       IN  [loops |-> Append(rest.loops, one.loop), rng |-> one.rng]

----------------------------------------------------------------------------
(* Effects *)

\* Mutant: a callback that closes over the values of the first render
newIntervalFirstRender(ai, sec, cfg, t) ==
  [attackIntensity |-> 50, security |-> [k \in MeasureKeys |-> FALSE],
   serverConfig |-> [cpu |-> 4, ram |-> 16, bandwidth |-> 1000, storage |-> 500],
   due |-> t + Interval]

\* The metrics effect's setInterval, with the values its callback closes over
newInterval(ai, sec, cfg, t) ==
  [attackIntensity |-> ai, security |-> sec, serverConfig |-> cfg,
   due |-> t + Interval]

\* Mutant: a cleanup that does not clear the interval
metricsCleanupNone(ivs, own) == ivs

\* Cleanup of the metrics effect: clearInterval(interval), the one interval
\* the effect run created (own)
metricsCleanup(ivs, own) == ivs \ own

\* Mutant: the stopped branch returns without setMetrics([])
metricsEffectNoClear(sim, ai, sec, cfg, t, prev) ==
  IF ~sim
  THEN [metrics |-> prev, created |-> {}]
  ELSE [metrics |-> prev, created |-> {newInterval(ai, sec, cfg, t)}]

\* Mutant: every run of the effect starts from an empty history
metricsEffectAlwaysClear(sim, ai, sec, cfg, t, prev) ==
  IF ~sim
  THEN [metrics |-> <<>>, created |-> {}]
  ELSE [metrics |-> <<>>, created |-> {newInterval(ai, sec, cfg, t)}]

\* The metrics effect (lines 71-99): when stopped, setMetrics([]) and no timer;
\* else a new interval closing over the current values
metricsEffect(sim, ai, sec, cfg, t, prev) ==
  IF ~sim
  THEN [metrics |-> <<>>, created |-> {}]
  ELSE [metrics |-> prev, created |-> {newInterval(ai, sec, cfg, t)}]

\* Mutant: a cleanup that leaves the pool in place
animatorCleanupNone(ls, hadEffect) == ls

\* Cleanup of the animator effect: particles = [] in the closure that the
\* effect created; the pending animation frame is not cancelled.
animatorCleanup(ls, hadEffect) ==
  IF hadEffect
  THEN [ls EXCEPT ![Len(ls)].particles = <<>>]
  ELSE ls

\* Mutant: the effect without the guards on canvasRef.current and ctx
animatorStartsUnguarded(sim, canvas) == sim

\* The animator effect (lines 101-178): guards, pool, first animate() call
animatorStarts(sim, canvas) == sim /\ canvas

animatorEffect(ls, s, sec) ==
  LET pool == createPool(particleCount, s, sec)
      first == animate([security |-> sec, particles |-> pool.particles], pool.rng)
  IN  [loops |-> Append(ls, first.loop), rng |-> first.rng]

----------------------------------------------------------------------------
(* Input sets of the controls *)

AttackValues == {DefaultAttackIntensity, 100}
ConfigValues(key) ==
  CASE key = "cpu" -> {1, DefaultCpu}
    [] key = "ram" -> {DefaultRam}
    [] key = "bandwidth" -> {DefaultBandwidth}
    [] key = "storage" -> {DefaultStorage}
ToggleKeys == {"fail2ban", "waf"}
Seeds == {0}

DefaultConfig ==
  [cpu |-> DefaultCpu, ram |-> DefaultRam, bandwidth |-> DefaultBandwidth,
   storage |-> DefaultStorage]
NoSecurity == [k \in MeasureKeys |-> FALSE]
Zero == [num |-> 0, den |-> 1]

Init ==
  /\ serverConfig = DefaultConfig
  /\ security = NoSecurity
  /\ isSimulating = FALSE
  /\ attackIntensity = DefaultAttackIntensity
  /\ canvasAvailable \in BOOLEAN
  /\ metrics = <<>>
  /\ serverLoad = Zero
  /\ legitimateTraffic = 0
  /\ maliciousTraffic = 0
  /\ intervals = {}
  /\ loops = <<>>
  /\ now = 0
  /\ rng \in Seeds
  /\ animateCalls = 0

----------------------------------------------------------------------------
(* Re-render after a state change: the effects whose dependencies changed   *)
(* run their cleanup and then run again.  metricsDeps: one of isSimulating, *)
(* attackIntensity, security, serverConfig changed; animatorDeps: one of    *)
(* isSimulating, security changed.  wasSim is isSimulating before.          *)

Rerender(wasSim, animatorDeps) ==
  /\ LET m == metricsEffect(isSimulating', attackIntensity', security',
                            serverConfig', now, metrics)
     IN  /\ intervals' = metricsCleanup(intervals, intervals) \cup m.created
         /\ metrics' = m.metrics
  /\ IF animatorDeps
     THEN LET cleaned == animatorCleanup(loops, animatorStarts(wasSim, canvasAvailable))
          IN  IF animatorStarts(isSimulating', canvasAvailable)
              THEN /\ Len(loops) < MaxLoops
                   /\ animateCalls < MaxAnimateCalls
                   /\ LET e == animatorEffect(cleaned, rng, security')
                      IN  /\ loops' = e.loops
                          /\ rng' = e.rng
                   /\ animateCalls' = animateCalls + 1
              ELSE /\ loops' = cleaned
                   /\ UNCHANGED <<rng, animateCalls>>
     ELSE UNCHANGED <<loops, rng, animateCalls>>
  /\ UNCHANGED <<canvasAvailable, serverLoad, legitimateTraffic,
                 maliciousTraffic, now>>

\* onClick={() => setIsSimulating(!isSimulating)}
ClickButton ==
  /\ isSimulating' = ~isSimulating
  /\ UNCHANGED <<serverConfig, security, attackIntensity>>
  /\ Rerender(isSimulating, TRUE)

\* checkbox onChange: setSecurity(prev => ({...prev, [key]: !prev[key]}))
ToggleSecurityOf(key) ==
  /\ security' = [security EXCEPT ![key] = ~@]
  /\ UNCHANGED <<serverConfig, isSimulating, attackIntensity>>
  /\ Rerender(isSimulating, TRUE)

ToggleSecurity == \E key \in ToggleKeys : ToggleSecurityOf(key)

\* range onChange: setAttackIntensity(parseInt(e.target.value))
SetAttackIntensity ==
  \E v \in AttackValues \ {attackIntensity} :
    /\ attackIntensity' = v
    /\ UNCHANGED <<serverConfig, security, isSimulating>>
    /\ Rerender(isSimulating, FALSE)

\* range onChange: setServerConfig(prev => ({...prev, [key]: parseInt(...)}))
SetServerConfigTo(key, v) ==
  /\ serverConfig' = [serverConfig EXCEPT ![key] = v]
  /\ UNCHANGED <<security, isSimulating, attackIntensity>>
  /\ Rerender(isSimulating, FALSE)

SetServerConfig ==
  \E key \in ConfigKeys :
    \E v \in ConfigValues(key) \ {serverConfig[key]} :
      SetServerConfigTo(key, v)

\* The interval callback (lines 77-96) of a timer that is due
Tick ==
  \E t \in intervals :
    /\ now = t.due
    /\ LET r1 == rng
           r2 == NextRng(r1)
           value == sampleValue(t.attackIntensity, t.security, r1)
       IN  /\ metrics' = appendMetric(metrics, [timestamp |-> now, value |-> value])
           /\ serverLoad' = newServerLoad(value, t.serverConfig)
           /\ maliciousTraffic' = newMaliciousTraffic(t.attackIntensity, t.security)
           /\ legitimateTraffic' = newLegitimateTraffic(r2)
           /\ rng' = NextRng(r2)
    /\ intervals' = (intervals \ {t}) \cup {[t EXCEPT !.due = @ + Interval]}
    /\ UNCHANGED <<serverConfig, security, isSimulating, attackIntensity,
                   canvasAvailable, loops, now, animateCalls>>

\* Time passes, up to the moment the next timer is due
Elapse ==
  \E d \in {Interval} :
    /\ now + d <= MaxTime
    /\ \A t \in intervals : now + d <= t.due
    /\ now' = now + d
    /\ UNCHANGED <<serverConfig, security, isSimulating, attackIntensity,
                   canvasAvailable, metrics, serverLoad, legitimateTraffic,
                   maliciousTraffic, intervals, loops, rng, animateCalls>>

\* A display refresh: every pending requestAnimationFrame callback runs
Refresh ==
  /\ loops # <<>>
  /\ animateCalls + Len(loops) <= MaxAnimateCalls
  /\ LET r == runFrames(loops, Len(loops), rng)
     IN  /\ loops' = r.loops
         /\ rng' = r.rng
  /\ animateCalls' = animateCalls + Len(loops)
  /\ UNCHANGED <<serverConfig, security, isSimulating, attackIntensity,
                 canvasAvailable, metrics, serverLoad, legitimateTraffic,
                 maliciousTraffic, intervals, now>>

Next ==
  \/ ClickButton
  \/ ToggleSecurity
  \/ SetAttackIntensity
  \/ SetServerConfig
  \/ Tick
  \/ Elapse
  \/ Refresh

Spec == Init /\ [][Next]_vars

----------------------------------------------------------------------------
(* The state right after the button starts the simulation at time 0, from   *)
(* the idle state with the given configuration and generator state.         *)

StartedFrom(cfg, sec, ai, canvas, s) ==
  LET m == metricsEffect(TRUE, ai, sec, cfg, 0, <<>>)
      e == IF animatorStarts(TRUE, canvas)
           THEN animatorEffect(<<>>, s, sec)
           ELSE [loops |-> <<>>, rng |-> s]
  IN  [intervals |-> m.created, metrics |-> m.metrics,
       loops |-> e.loops, rng |-> e.rng]

----------------------------------------------------------------------------
(* The arithmetic of a tick over the slider ranges: the observation starts  *)
(* idle, with a configuration the user set up before, and the user only     *)
(* starts and stops.                                                        *)

SecurityOfLevel(n) ==
  [k \in MeasureKeys |->
     \/ (n >= 1 /\ k = "fail2ban")
     \/ (n >= 2 /\ k = "pfsense")
     \/ (n >= 3 /\ k = "cloudflare")
     \/ (n >= 4 /\ k = "loadBalancer")
     \/ (n >= 5 /\ k = "waf")]

WideAttack == {0, DefaultAttackIntensity, 100}
WideConfigs ==
  {[cpu |-> 1, ram |-> 1, bandwidth |-> 1, storage |-> 1],
   DefaultConfig,
   [cpu |-> 32, ram |-> 128, bandwidth |-> 10000, storage |-> 2000]}

InitWide ==
  /\ serverConfig \in WideConfigs
  /\ security \in {SecurityOfLevel(n) : n \in 0 .. 5}
  /\ isSimulating = FALSE
  /\ attackIntensity \in WideAttack
  /\ canvasAvailable = TRUE
  /\ metrics = <<>>
  /\ serverLoad = Zero
  /\ legitimateTraffic = 0
  /\ maliciousTraffic = 0
  /\ intervals = {}
  /\ loops = <<>>
  /\ now = 0
  /\ rng \in 0 .. RandDen - 1
  /\ animateCalls = 0

NextWide ==
  \/ ClickButton
  \/ Tick
  \/ Elapse

SpecWide == InitWide /\ [][NextWide]_vars

----------------------------------------------------------------------------
(* The sliding window: the observation starts in a simulation that has run  *)
(* for n seconds in a tab whose animation frames are suspended, its n ticks *)
(* at -(n-1) s, ..., -1 s, 0 s.                                             *)

WindowLens == {30, 31}

\* The history after the first n ticks (n <= HistoryKeep + 1: none dropped
\* yet) of a simulation whose generator was in state s when it started
\* ticking: point k was appended at (k - n) s.
TickedHistory(n, s) ==
  Array([k \in 1 .. n |->
           [timestamp |-> (k - n) * Interval,
            value |-> sampleValue(attackIntensity, security, RngAfter(s, 2 * (k - 1)))]],
        n)

InitWindow ==
  /\ serverConfig = DefaultConfig
  /\ security = NoSecurity
  /\ isSimulating = TRUE
  /\ attackIntensity = DefaultAttackIntensity
  /\ canvasAvailable = TRUE
  /\ animateCalls = 0
  /\ now = 0
  /\ \E n \in WindowLens, seed \in Seeds :
       LET st == StartedFrom(serverConfig, security, attackIntensity,
                             canvasAvailable, seed)
           last == RngAfter(st.rng, 2 * (n - 1))
           value == sampleValue(attackIntensity, security, last)
       IN  /\ metrics = TickedHistory(n, st.rng)
           /\ serverLoad = newServerLoad(value, serverConfig)
           /\ maliciousTraffic = newMaliciousTraffic(attackIntensity, security)
           /\ legitimateTraffic = newLegitimateTraffic(NextRng(last))
           /\ rng = RngAfter(st.rng, 2 * n)
           /\ intervals = {newInterval(attackIntensity, security, serverConfig, now)}
           /\ loops = st.loops

SpecWindow == InitWindow /\ [][Next]_vars

----------------------------------------------------------------------------
(* Particles in flight: the observation starts in a running simulation      *)
(* whose animate has been invoked a number of times (once by the effect,    *)
(* then once per display refresh) before the first timer tick, so that      *)
(* the fastest attack particles are at the right edge.                      *)

RECURSIVE framesLater(_, _)
framesLater(st, k) ==
  IF k = 0 \/ st.loops = <<>> THEN st
  ELSE IF k = 1 THEN runFrames(st.loops, Len(st.loops), st.rng)
  ELSE framesLater(framesLater(st, k \div 2), k - k \div 2)

FlightStarts ==
  {[level |-> 1, calls |-> 83],
   [level |-> 3, calls |-> 138],
   [level |-> 5, calls |-> 277]}

FlightInit(starts) ==
  /\ serverConfig = DefaultConfig
  /\ isSimulating = TRUE
  /\ attackIntensity = DefaultAttackIntensity
  /\ canvasAvailable = TRUE
  /\ metrics = <<>>
  /\ serverLoad = Zero
  /\ legitimateTraffic = 0
  /\ maliciousTraffic = 0
  /\ animateCalls = 0
  /\ now = 0
  /\ \E f \in starts, seed \in Seeds :
       /\ security = SecurityOfLevel(f.level)
       /\ LET st == StartedFrom(serverConfig, security, attackIntensity,
                                canvasAvailable, seed)
              fl == framesLater([loops |-> st.loops, rng |-> st.rng], f.calls - 1)
          IN  /\ intervals = st.intervals
              /\ loops = fl.loops
              /\ rng = fl.rng

InitFlight == FlightInit(FlightStarts)

\* The events the animator reacts to, and the ticks that share Math.random
NextFlight ==
  \/ ClickButton
  \/ ToggleSecurity
  \/ Tick
  \/ Elapse
  \/ Refresh

SpecFlight == InitFlight /\ [][NextFlight]_vars

----------------------------------------------------------------------------
(* Particles in flight under every control: the observation starts as the   *)
(* first of the starts above, and the user edits the attack intensity and   *)
(* the server configuration too.                                            *)

PoolStarts == {[level |-> 1, calls |-> 83]}

InitPool == FlightInit(PoolStarts)

SpecPool == InitPool /\ [][Next]_vars

----------------------------------------------------------------------------
(* The security measures: the observation starts idle with any of the 32    *)
(* combinations of the five checkboxes, and the user toggles any of them,   *)
(* starts and stops.  The drawing surface is not available, so that the     *)
(* observation follows the checkboxes and the ticks alone.                  *)

InitMeasures ==
  /\ serverConfig = DefaultConfig
  /\ security \in [MeasureKeys -> BOOLEAN]
  /\ isSimulating = FALSE
  /\ attackIntensity = DefaultAttackIntensity
  /\ canvasAvailable = FALSE
  /\ metrics = <<>>
  /\ serverLoad = Zero
  /\ legitimateTraffic = 0
  /\ maliciousTraffic = 0
  /\ intervals = {}
  /\ loops = <<>>
  /\ now = 0
  /\ rng \in Seeds
  /\ animateCalls = 0

ToggleAnySecurity == \E key \in MeasureKeys : ToggleSecurityOf(key)

NextMeasures ==
  \/ ClickButton
  \/ ToggleAnySecurity
  \/ Tick
  \/ Elapse

SpecMeasures == InitMeasures /\ [][NextMeasures]_vars

----------------------------------------------------------------------------
(* The server sliders: the observation starts idle with the default server, *)
(* at no attack or at the default attack intensity, and the user moves the  *)
(* cpu, ram and bandwidth sliders to either end or back, starts and stops.  *)
(* The drawing surface is not available; the ticks share only Math.random   *)
(* with the animator, and the generator starts in any state.                *)

\* Mutant: sliders with min={0}
SliderEndsFromZero(key) ==
  CASE key = "cpu" -> {0, DefaultCpu, 32}
    [] key = "ram" -> {0, DefaultRam, 128}
    [] key = "bandwidth" -> {0, DefaultBandwidth, 10000}

\* min and max of the range inputs, and the default
SliderEnds(key) ==
  CASE key = "cpu" -> {1, DefaultCpu, 32}
    [] key = "ram" -> {1, DefaultRam, 128}
    [] key = "bandwidth" -> {1, DefaultBandwidth, 10000}

CapacityKeys == {"cpu", "ram", "bandwidth"}

InitSliders ==
  /\ serverConfig = DefaultConfig
  /\ security = NoSecurity
  /\ isSimulating = FALSE
  /\ attackIntensity \in {0, DefaultAttackIntensity}
  /\ canvasAvailable = FALSE
  /\ metrics = <<>>
  /\ serverLoad = Zero
  /\ legitimateTraffic = 0
  /\ maliciousTraffic = 0
  /\ intervals = {}
  /\ loops = <<>>
  /\ now = 0
  /\ rng \in 0 .. RandDen - 1
  /\ animateCalls = 0

MoveSlider ==
  \E key \in CapacityKeys :
    \E v \in SliderEnds(key) \ {serverConfig[key]} :
      SetServerConfigTo(key, v)

NextSliders ==
  \/ ClickButton
  \/ MoveSlider
  \/ Tick
  \/ Elapse

SpecSliders == InitSliders /\ [][NextSliders]_vars

----------------------------------------------------------------------------
(* Claims *)

\* C1: after any Running -> Idle transition, serverLoad, legitimateTraffic and
\* maliciousTraffic are all 0.
C1_StopResetsPercentages ==
  [][(isSimulating /\ ~isSimulating') =>
       (serverLoad'.num = 0 /\ legitimateTraffic' = 0 /\ maliciousTraffic' = 0)]_vars

\* C2: the maliciousTraffic a tick stores lies in [0, 100].
C2_MaliciousInRange ==
  maliciousTraffic >= 0 /\ maliciousTraffic <= 100 * PctScale

\* C3: every MetricPoint value, serverLoad and legitimateTraffic lie in
\* [0, 100], for every configuration in the slider ranges.
C3_SampleLoadLegitInRange ==
  /\ \A i \in 1 .. Len(metrics) :
       metrics[i].value >= 0 /\ metrics[i].value <= 100 * PctScale
  /\ serverLoad.den > 0
  /\ serverLoad.num >= 0
  /\ serverLoad.num <= 100 * serverLoad.den
  /\ legitimateTraffic >= 0
  /\ legitimateTraffic <= 100 * PctScale

\* A tick at the smallest server whose sample and load both hit the clamp
C3_Witness ==
  /\ metrics # <<>>
  /\ metrics[Len(metrics)].value = 100 * PctScale
  /\ serverLoad.num = 100 * serverLoad.den
  /\ serverConfig.cpu = 1
  /\ legitimateTraffic > 50 * PctScale

\* C4: the history never holds more than 31 points, and a tick on a history
\* of 31 points drops the oldest, keeps the other 30 in order and appends
\* the new point last.
C4_WindowBounded ==
  /\ Len(metrics) <= 31
  /\ [][/\ Len(metrics') <= 31
        /\ (Len(metrics) = 31 /\ isSimulating' /\ metrics' # metrics) =>
             /\ Len(metrics') = 31
             /\ SubSeq(metrics', 1, 30) = Tail(metrics)
             /\ metrics'[31].timestamp = now]_vars

\* A full window after a tick that dropped the point of -30 s
C4_Witness ==
  /\ Len(metrics) = 31
  /\ metrics[1].timestamp = -29 * Interval
  /\ metrics[31].timestamp = Interval

\* C5: Idle means an empty history and no metrics timer; Running means a
\* metrics timer is active.
C5_IdleRunningShape ==
  /\ ~isSimulating => (metrics = <<>> /\ intervals = {})
  /\ isSimulating => intervals # {}

\* Idle after a stop that followed a tick
C5_Witness == ~isSimulating /\ maliciousTraffic > 0 /\ metrics = <<>>

\* C6: once stopped, animate is never invoked again.
C6_NoFrameAfterStop ==
  [][(~isSimulating /\ ~isSimulating') => animateCalls' = animateCalls]_vars

\* C7: when the simulation stops every interval timer is cleared, and while
\* Idle the history stays empty and the derived state is not mutated.
C7_NoTickWhileIdle ==
  [][~isSimulating' =>
       /\ intervals' = {}
       /\ metrics' = <<>>
       /\ ~isSimulating =>
            UNCHANGED <<serverLoad, legitimateTraffic, maliciousTraffic>>]_vars

\* Idle for a whole timer period after a stop that followed a tick
C7_Witness ==
  /\ ~isSimulating
  /\ legitimateTraffic > 0
  /\ now >= 2 * Interval
  /\ intervals = {}

\* C8: a stop (issued once, or again) ends Idle with an empty history, no
\* active timer and no active frame loop.
C8_StopEndState ==
  [][(isSimulating /\ ~isSimulating') =>
       (metrics' = <<>> /\ intervals' = {} /\ loops' = <<>>)]_vars

\* The pool the newest animate closure draws
ActivePool == IF loops = <<>> THEN <<>> ELSE loops[Len(loops)].particles

Leaving(p) == p.x + p.speed > CanvasWidth * PxScale

ColourAndSpeed(p, level) ==
  /\ p.type \in {"legitimate", "attack"}
  /\ p.type = "legitimate" =>
       /\ p.color = "#22c55e"
       /\ p.speed >= 2 * PxScale /\ p.speed <= 5 * PxScale
  /\ (p.type = "attack" /\ level >= 4) =>
       /\ p.color = "#ef4444"
       /\ 10 * p.speed >= 3 * 2 * PxScale /\ 10 * p.speed <= 3 * 5 * PxScale
  /\ (p.type = "attack" /\ level >= 2 /\ level < 4) =>
       /\ p.color = "#eab308"
       /\ 10 * p.speed >= 6 * 2 * PxScale /\ 10 * p.speed <= 6 * 5 * PxScale
  /\ (p.type = "attack" /\ level < 2) =>
       /\ p.color = "#ef4444"
       /\ p.speed >= 2 * PxScale /\ p.speed <= 5 * PxScale

C10_ResetAssigns ==
  [][/\ \A l \in 1 .. Len(loops) :
          (l <= Len(loops') /\ Len(loops'[l].particles) = Len(loops[l].particles)) =>
            \A i \in 1 .. Len(loops[l].particles) :
              LET p == loops[l].particles[i]
                  q == loops'[l].particles[i]
              IN  q # p =>
                    IF Leaving(p)
                    THEN /\ q.x = 0
                         /\ ColourAndSpeed(q, protectionLevel(loops[l].security))
                    ELSE q = [p EXCEPT !.x = @ + p.speed]
     /\ Len(loops') = Len(loops) + 1 =>
          \A i \in 1 .. Len(ActivePool') :
            /\ ActivePool'[i].x - ActivePool'[i].speed = 0
            /\ ColourAndSpeed(ActivePool'[i], protectionLevel(security'))]_vars

\* Particles just reset at the right edge: a yellow attack particle under
\* three measures, or a slowed red one under five
C10_Witness ==
  \E l \in 1 .. Len(loops) :
    \E i \in 1 .. Len(loops[l].particles) :
      LET p == loops[l].particles[i]
      IN  /\ p.x = 0
          /\ p.type = "attack"
          /\ protectionLevel(loops[l].security) = 3
          /\ p.color = "#eab308"

\* C11: for each of the 32 combinations of the five flags the protection
\* level is the number of flags on, within 0 .. 5, the protection score is
\* level / 5 * 100, and toggling one flag changes the level by exactly 1.
C11_LevelAndScore ==
  /\ [](LET on == Cardinality({k \in MeasureKeys : security[k]})
        IN  /\ protectionLevel(security) = on
            /\ on \in 0 .. 5
            /\ 5 * getProtectionScore(security) = on * 100 * PctScale)
  /\ [][security' # security =>
          \/ protectionLevel(security') = protectionLevel(security) + 1
          \/ protectionLevel(security') = protectionLevel(security) - 1]_vars

\* The fifth measure toggled on after a tick under four: level 5, score 100
C11_Witness ==
  /\ isSimulating
  /\ metrics # <<>>
  /\ maliciousTraffic = newMaliciousTraffic(attackIntensity, SecurityOfLevel(4))
  /\ protectionLevel(security) = 5
  /\ getProtectionScore(security) = 100 * PctScale

\* C12: while Running on an available drawing surface the animator draws a
\* pool of exactly 100 particles (every older closure's pool is empty), after
\* any frames, resets and edits; a particle leaving by the right edge is
\* reset in place, at x = 0 in its own slot, and none is added or removed.
C12_PoolOfHundred ==
  /\ []((isSimulating /\ canvasAvailable) =>
          /\ Len(ActivePool) = particleCount
          /\ \A l \in 1 .. Len(loops) - 1 : loops[l].particles = <<>>)
  /\ [][(isSimulating /\ isSimulating' /\ Len(loops') = Len(loops)) =>
          /\ Len(ActivePool') = Len(ActivePool)
          /\ \A i \in 1 .. Len(ActivePool) :
               \/ ActivePool'[i] = ActivePool[i]
               \/ /\ Leaving(ActivePool[i])
                  /\ ActivePool'[i].x = 0
               \/ /\ ~Leaving(ActivePool[i])
                  /\ ActivePool'[i].x = ActivePool[i].x + ActivePool[i].speed]_vars

\* A full pool with a particle just reset at the right edge, after edits of
\* the attack intensity and the server configuration
C12_Witness ==
  /\ isSimulating
  /\ Len(ActivePool) = particleCount
  /\ \E i \in 1 .. Len(ActivePool) : ActivePool[i].x = 0
  /\ attackIntensity # DefaultAttackIntensity
  /\ serverConfig # DefaultConfig

\* C13: on every tick the sample before the clamp lies within 10 of
\* baseLoad = attackIntensity * (1 - protectionLevel * 0.15), and the stored
\* value is that sample clamped to [0, 100]: attackIntensity 50 with no flag
\* gives baseLoad 50 and a value in [40, 60], attackIntensity 100 with all
\* five flags gives baseLoad 25.
C13_SampleNearBaseLoad ==
  [][(isSimulating' /\ metrics' # metrics) =>
       LET level == Cardinality({k \in MeasureKeys : security[k]})
           hundredBase == attackIntensity * (100 - 15 * level) * PctScale
           sample == baseLoad(attackIntensity, security) + randomVariation(rng)
           value == metrics'[Len(metrics')].value
       IN  /\ 100 * baseLoad(attackIntensity, security) = hundredBase
           /\ 100 * sample >= hundredBase - 100 * 10 * PctScale
           /\ 100 * sample <= hundredBase + 100 * 10 * PctScale
           /\ value = Max(0, Min(100 * PctScale, sample))
           /\ (attackIntensity = 50 /\ level = 0) =>
                /\ hundredBase = 100 * 50 * PctScale
                /\ value >= 40 * PctScale /\ value <= 60 * PctScale
           /\ (attackIntensity = 100 /\ level = 5) =>
                hundredBase = 100 * 25 * PctScale]_vars

\* A tick at attackIntensity 100 under all five measures that drew the
\* lowest variation: the value is 25 - 10
C13_Witness ==
  /\ isSimulating
  /\ attackIntensity = 100
  /\ protectionLevel(security) = 5
  /\ metrics # <<>>
  /\ metrics[Len(metrics)].value = 15 * PctScale

\* C14: every tick and every particle reset computes from the configuration
\* current when it runs.  Every active timer's callback and every closure
\* that still holds particles closes over the current values; a tick stores
\* the sample, the load and the malicious traffic of the current attack
\* intensity, measures and server configuration; a reset gives the colour and
\* speed of the current protection level.
C14_CurrentValuesUsed ==
  /\ [](/\ \A t \in intervals :
             /\ t.attackIntensity = attackIntensity
             /\ t.security = security
             /\ t.serverConfig = serverConfig
        /\ \A l \in 1 .. Len(loops) :
             loops[l].particles # <<>> => loops[l].security = security)
  /\ [][/\ (isSimulating' /\ metrics' # metrics) =>
             LET value == sampleValue(attackIntensity, security, rng)
             IN  /\ metrics'[Len(metrics')].value = value
                 /\ serverLoad' = newServerLoad(value, serverConfig)
                 /\ maliciousTraffic' = newMaliciousTraffic(attackIntensity, security)
        /\ \A l \in 1 .. Len(loops') :
             \A i \in 1 .. Len(loops'[l].particles) :
               LET q == loops'[l].particles[i]
               IN  (l > Len(loops) \/ (q.x = 0 /\ q # loops[l].particles[i])) =>
                     ColourAndSpeed(q, protectionLevel(security'))]_vars

\* A tick after the attack intensity, a measure and the cpu count were
\* edited in a running simulation: malicious traffic 200 * (1 - 0.4) = 120,
\* and the pool recreated under two measures
C14_Witness ==
  /\ isSimulating
  /\ metrics # <<>>
  /\ attackIntensity = 100
  /\ serverConfig.cpu = 1
  /\ protectionLevel(security) = 2
  /\ maliciousTraffic = 120 * PctScale
  /\ Len(loops) = 2
  /\ Len(ActivePool) = particleCount

\* C15: while Running the ticks keep the cadence of one per second, also
\* when the user edits between ticks: after a sample, a timer is due to
\* produce the next one no later than one period after it.
C15_TickCadence ==
  (isSimulating /\ metrics # <<>>) =>
    \E t \in intervals : t.due <= metrics[Len(metrics)].timestamp + Interval

\* C16: for every server configuration the sliders can produce (cpu, ram
\* and bandwidth each at least 1) the serverCapacity a tick divides by is
\* strictly positive, at least (10 + 2 + 0.01) / 3, and the server load is
\* a well-defined number in [0, 100].
C16_CapacityPositive ==
  /\ \A key \in CapacityKeys : serverConfig[key] >= 1
  /\ \A t \in intervals :
       /\ serverCapacity300(t.serverConfig) > 0
       /\ serverCapacity300(t.serverConfig) >= 1000 + 200 + 1
  /\ serverLoad.den > 0
  /\ serverLoad.num >= 0
  /\ serverLoad.num <= 100 * serverLoad.den

\* A tick with the three sliders at their minimum whose load is not clamped:
\* the quotient by the smallest capacity
C16_Witness ==
  /\ isSimulating
  /\ metrics # <<>>
  /\ \A key \in CapacityKeys : serverConfig[key] = 1
  /\ serverLoad.den = RandDen * (1000 + 200 + 1)
  /\ serverLoad.num > 0

\* C17: with the drawing surface unavailable the animator creates no
\* particle pool and schedules no frame, and animate is never invoked, while
\* a start still creates the metrics timer, due one period later.
C17_NoSurfaceNoAnimator ==
  /\ [](~canvasAvailable =>
          /\ loops = <<>>
          /\ animateCalls = 0
          /\ isSimulating => Cardinality(intervals) = 1)
  /\ [][(~canvasAvailable /\ ~isSimulating /\ isSimulating') =>
          /\ loops' = <<>>
          /\ rng' = rng
          /\ \E t \in intervals' : t.due = now + Interval]_vars

\* A simulation started without a drawing surface that has ticked
C17_Witness ==
  /\ ~canvasAvailable
  /\ isSimulating
  /\ metrics # <<>>
  /\ metrics[Len(metrics)].timestamp = now
  /\ loops = <<>>

\* C18: at most one self-rescheduling frame loop is alive while Running and
\* none while Idle, after any starts, stops and security toggles.
C18_OneFrameLoop ==
  Len(loops) <= (IF isSimulating THEN 1 ELSE 0)

\* C19: an edit of the attack intensity, a security flag or the server
\* configuration while Running leaves the history and the three derived
\* percentages unchanged and leaves exactly one metrics timer, a new one
\* (the old one is cleared); only a stop empties the history.
C19_EditKeepsMetrics ==
  [][/\ (/\ isSimulating /\ isSimulating'
         /\ <<attackIntensity, security, serverConfig>>' #
              <<attackIntensity, security, serverConfig>>) =>
          /\ UNCHANGED <<metrics, serverLoad, legitimateTraffic, maliciousTraffic>>
          /\ Cardinality(intervals') = 1
          /\ intervals' \cap intervals = {}
          /\ \A t \in intervals' : t.due = now + Interval
     /\ (metrics # <<>> /\ metrics' = <<>>) => (isSimulating /\ ~isSimulating')]_vars

\* A running simulation edited after its last tick: the history is there,
\* and the one timer is the new one, due a period after the edit
C19_Witness ==
  /\ isSimulating
  /\ metrics # <<>>
  /\ serverLoad.num > 0
  /\ attackIntensity = 100
  /\ Cardinality(intervals) = 1
  /\ \A t \in intervals :
       /\ t.attackIntensity = 100
       /\ t.due > metrics[Len(metrics)].timestamp + Interval

====
